---- MODULE Spec2Model ----
(***************************************************************************)
(* Model of the sqlite-vector crate (packages/agentdb/rust-crate/src/      *)
(* lib.rs): the VectorDB facade over one SQLite table `vectors`, the       *)
(* rmp_serde record codec and the cosine similarity kernel.                *)
(*                                                                         *)
(* An f32 is kept as its IEEE-754 bit pattern, so that the codec is a real *)
(* conversion to and from bytes.  Arithmetic on the small integer-valued   *)
(* floats used here is exact in f32; a similarity score, which the code    *)
(* computes as dot / (sqrt(norm_a) * sqrt(norm_b)), is kept as the pair    *)
(* (dot, norm_a * norm_b) and compared exactly, or as NaN.                 *)
(***************************************************************************)
EXTENDS Integers, Sequences, FiniteSets, TLC

VARIABLES rows, dimension, written, established, last, threads, lock

vars == <<rows, dimension, written, established, last, threads, lock>>

\* The part of the state that only concurrent callers use.
conc == <<threads, lock>>

----------------------------------------------------------------------------
(* Bounds and input domains *)

MaxK == 3
MaxDim == 2

Ids == {"a", "b", "c"}

----------------------------------------------------------------------------
(* f32 values as bit patterns *)

F32_0 == 0
F32_1 == 1065353216
F32_2 == 1073741824
F32_NaN == 2143289344

IsNaN(bits) == (bits \div 8388608) % 256 = 255 /\ bits % 8388608 # 0

F32ToInt(bits) ==
    CASE bits = F32_0 -> 0
      [] bits = F32_1 -> 1
      [] bits = F32_2 -> 2

\* A float as an arithmetic value: NaN, or an exactly representable integer.
NumNaN == [nan |-> TRUE, v |-> 0]
Num(bits) == IF IsNaN(bits) THEN NumNaN ELSE [nan |-> FALSE, v |-> F32ToInt(bits)]
FAdd(x, y) == IF x.nan \/ y.nan THEN NumNaN ELSE [nan |-> FALSE, v |-> x.v + y.v]
FMul(x, y) == IF x.nan \/ y.nan THEN NumNaN ELSE [nan |-> FALSE, v |-> x.v * y.v]
FEqZero(x) == ~x.nan /\ x.v = 0

Min(x, y) == IF x < y THEN x ELSE y

\* Documents (vector, metadata) offered to insert, and queries offered to
\* search; MaxDim bounds the length of the vectors.
TestDocs ==
    { [vector |-> <<F32_1>>,               metadata |-> "{}"],
      [vector |-> <<F32_1, F32_0>>,        metadata |-> "{}"],
      [vector |-> <<F32_1, F32_0>>,        metadata |-> "{\"title\": \"Test\"}"],
      [vector |-> <<F32_1, F32_1>>,        metadata |-> "{\"title\": \"Test\"}"],
      [vector |-> <<F32_NaN, F32_1>>,      metadata |-> "{}"],
      [vector |-> <<F32_1, F32_0, F32_2>>, metadata |-> "{}"] }
Docs == {d \in TestDocs : Len(d.vector) <= MaxDim}
Queries == { <<F32_1>>, <<F32_1, F32_1>> }

----------------------------------------------------------------------------
(* Record codec: rmp_serde::to_vec / rmp_serde::from_slice on              *)
(* struct Vector { data: Vec<f32> }.  MessagePack: a one-element array     *)
(* (0x91) holding an array of n elements (0x90 + n, n < 16), each element  *)
(* an f32 (0xca followed by the four bytes of the value, big-endian).      *)

BE4(bits) ==
    << bits \div 16777216, (bits \div 65536) % 256, (bits \div 256) % 256, bits % 256 >>

FromBE4(b3, b2, b1, b0) == b3 * 16777216 + b2 * 65536 + b1 * 256 + b0

RECURSIVE EncodeFloats(_, _)
EncodeFloats(data, i) ==
    IF i > Len(data) THEN << >>
    ELSE <<202>> \o BE4(data[i]) \o EncodeFloats(data, i + 1)

\* Variant of to_vec writing the components last to first.
RECURSIVE EncodeFloatsReversed(_, _)
EncodeFloatsReversed(data, i) ==
    IF i < 1 THEN << >>
    ELSE <<202>> \o BE4(data[i]) \o EncodeFloatsReversed(data, i - 1)

to_vec_reversed(vector) ==
    <<145, 144 + Len(vector)>> \o EncodeFloatsReversed(vector, Len(vector))

to_vec(vector) == <<145, 144 + Len(vector)>> \o EncodeFloats(vector, 1)

from_slice(bytes) ==
    IF /\ Len(bytes) >= 2
       /\ bytes[1] = 145
       /\ bytes[2] \in 144..159
       /\ Len(bytes) = 2 + 5 * (bytes[2] - 144)
       /\ \A i \in 1..(bytes[2] - 144) : bytes[5 * i - 2] = 202
    THEN [ok |-> TRUE,
          vector |-> [i \in 1..(bytes[2] - 144) |->
                         FromBE4(bytes[5 * i - 1], bytes[5 * i],
                                 bytes[5 * i + 1], bytes[5 * i + 2])]]
    ELSE [ok |-> FALSE]

----------------------------------------------------------------------------
(* Similarity kernel *)

\* The accumulation loop `for i in 0..len` of scalar_cosine_similarity;
\* acc = [dot, norm_a, norm_b], i is the 1-based index of the next component.
RECURSIVE ScalarLoop(_, _, _, _, _)
ScalarLoop(a, b, i, len, acc) ==
    IF i > len THEN acc
    ELSE ScalarLoop(a, b, i + 1, len,
            [dot    |-> FAdd(acc.dot,    FMul(Num(a[i]), Num(b[i]))),
             norm_a |-> FAdd(acc.norm_a, FMul(Num(a[i]), Num(a[i]))),
             norm_b |-> FAdd(acc.norm_b, FMul(Num(b[i]), Num(b[i])))])

\* A score: NaN, or the value dot / sqrt(nn) with nn > 0.
ScoreZero == [nan |-> FALSE, dot |-> 0, nn |-> 1]
ScoreNaN == [nan |-> TRUE, dot |-> 0, nn |-> 1]

\* Variant of scalar_cosine_similarity that scores operands of different
\* lengths as 0.0 instead of scoring their common prefix.
scalar_cosine_similarity_same_len(a, b) ==
    LET zero == [nan |-> FALSE, v |-> 0]
        acc == ScalarLoop(a, b, 1, Min(Len(a), Len(b)),
                          [dot |-> zero, norm_a |-> zero, norm_b |-> zero])
    IN  IF Len(a) # Len(b) THEN ScoreZero
        ELSE IF FEqZero(acc.norm_a) \/ FEqZero(acc.norm_b) THEN ScoreZero
        ELSE IF acc.dot.nan \/ acc.norm_a.nan \/ acc.norm_b.nan THEN ScoreNaN
        ELSE [nan |-> FALSE, dot |-> acc.dot.v, nn |-> acc.norm_a.v * acc.norm_b.v]

scalar_cosine_similarity(a, b) ==
    LET len == Min(Len(a), Len(b))
        zero == [nan |-> FALSE, v |-> 0]
        acc == ScalarLoop(a, b, 1, len, [dot |-> zero, norm_a |-> zero, norm_b |-> zero])
    IN  IF FEqZero(acc.norm_a) \/ FEqZero(acc.norm_b) THEN ScoreZero
        ELSE IF acc.dot.nan \/ acc.norm_a.nan \/ acc.norm_b.nan THEN ScoreNaN
        ELSE [nan |-> FALSE, dot |-> acc.dot.v, nn |-> acc.norm_a.v * acc.norm_b.v]

\* The three sums of scalar_cosine_similarity before the zero test.
scalar_sums(a, b) ==
    LET zero == [nan |-> FALSE, v |-> 0]
    IN  ScalarLoop(a, b, 1, Min(Len(a), Len(b)),
                   [dot |-> zero, norm_a |-> zero, norm_b |-> zero])

\* f32x8::new([a[i], .., a[i+7]]) for the 0-based offset i; lanes are 1..8.
Lanes(a, i) == [j \in 1..8 |-> Num(a[i + j])]
LaneMul(va, vb) == [j \in 1..8 |-> FMul(va[j], vb[j])]

\* `for j in 0..8 { dot += prod[j]; norm_a += sq_a[j]; norm_b += sq_b[j] }`
RECURSIVE LaneSum(_, _, _, _, _)
LaneSum(acc, prod, sq_a, sq_b, j) ==
    IF j > 8 THEN acc
    ELSE LaneSum([dot    |-> FAdd(acc.dot, prod[j]),
                  norm_a |-> FAdd(acc.norm_a, sq_a[j]),
                  norm_b |-> FAdd(acc.norm_b, sq_b[j])],
                 prod, sq_a, sq_b, j + 1)

\* `for i in (0..simd_len).step_by(8)`; i is the 0-based offset of the group.
RECURSIVE SimdLoop(_, _, _, _, _)
SimdLoop(a, b, i, simd_len, acc) ==
    IF i >= simd_len THEN acc
    ELSE LET va == Lanes(a, i)
             vb == Lanes(b, i)
         IN  SimdLoop(a, b, i + 8, simd_len,
                      LaneSum(acc, LaneMul(va, vb), LaneMul(va, va), LaneMul(vb, vb), 1))

\* Variant of SimdRemainder that leaves the remainder out.
SimdRemainderSkipped(a, b, i, len, acc) == acc

\* `for i in simd_len..len`; i is the 1-based index of the next component.
RECURSIVE SimdRemainder(_, _, _, _, _)
SimdRemainder(a, b, i, len, acc) ==
    IF i > len THEN acc
    ELSE SimdRemainder(a, b, i + 1, len,
            [dot    |-> FAdd(acc.dot,    FMul(Num(a[i]), Num(b[i]))),
             norm_a |-> FAdd(acc.norm_a, FMul(Num(a[i]), Num(a[i]))),
             norm_b |-> FAdd(acc.norm_b, FMul(Num(b[i]), Num(b[i])))])

\* The three sums of simd_cosine_similarity before the zero test.
simd_sums(a, b) ==
    LET len == Min(Len(a), Len(b))
        simd_len == (len \div 8) * 8
        zero == [nan |-> FALSE, v |-> 0]
        grouped == SimdLoop(a, b, 0, simd_len,
                            [dot |-> zero, norm_a |-> zero, norm_b |-> zero])
    IN  SimdRemainder(a, b, simd_len + 1, len, grouped)

\* Variant of simd_cosine_similarity without the test for a zero norm: the
\* division 0.0 / 0.0 or x / 0.0 gives NaN or an infinity.
simd_cosine_similarity_no_zero_test(a, b) ==
    LET acc == simd_sums(a, b)
    IN  IF acc.dot.nan \/ acc.norm_a.nan \/ acc.norm_b.nan THEN ScoreNaN
        ELSE IF acc.norm_a.v * acc.norm_b.v = 0 THEN ScoreNaN
        ELSE [nan |-> FALSE, dot |-> acc.dot.v, nn |-> acc.norm_a.v * acc.norm_b.v]

simd_cosine_similarity(a, b) ==
    LET acc == simd_sums(a, b)
    IN  IF FEqZero(acc.norm_a) \/ FEqZero(acc.norm_b) THEN ScoreZero
        ELSE IF acc.dot.nan \/ acc.norm_a.nan \/ acc.norm_b.nan THEN ScoreNaN
        ELSE [nan |-> FALSE, dot |-> acc.dot.v, nn |-> acc.norm_a.v * acc.norm_b.v]

cosine_similarity(self, other) == scalar_cosine_similarity(self, other)

\* Sign-preserving square of a score times the other score's nn: orders
\* dot1/sqrt(nn1) against dot2/sqrt(nn2) without taking roots.
SignedSq(d) == IF d < 0 THEN 0 - d * d ELSE d * d

\* f32::partial_cmp: None when either operand is NaN.
partial_cmp(x, y) ==
    IF x.nan \/ y.nan THEN "None"
    ELSE LET l == SignedSq(x.dot) * y.nn
             r == SignedSq(y.dot) * x.nn
         IN  IF l < r THEN "Less" ELSE IF l > r THEN "Greater" ELSE "Equal"

ScoreLt(x, y) == partial_cmp(x, y) = "Less"

----------------------------------------------------------------------------
(* Storage: table vectors(id TEXT PRIMARY KEY, embedding BLOB NOT NULL,    *)
(* metadata TEXT), kept in rowid order, the order of a full table scan.    *)

None == [some |-> FALSE]
Some(x) == [some |-> TRUE, val |-> x]

Ok == [tag |-> "Ok"]

RowIds(rs) == {rs[i].id : i \in 1..Len(rs)}
HasId(rs, id) == id \in RowIds(rs)
RowOf(rs, id) == rs[CHOOSE i \in 1..Len(rs) : rs[i].id = id]

\* Variant of DeleteWhere that removes the first row whatever its id.
DeleteFirst(rs, id) == IF Len(rs) = 0 THEN rs ELSE Tail(rs)

\* DELETE FROM vectors WHERE id = ?1
DeleteWhere(rs, id) == SelectSeq(rs, LAMBDA r : r.id # id)

\* Variant of DeleteAll that spares the row with the highest rowid.
DeleteAllButLast(rs) == IF Len(rs) = 0 THEN rs ELSE <<rs[Len(rs)]>>

\* DELETE FROM vectors
DeleteAll(rs) == << >>

\* Variant of InsertOrReplace without conflict resolution: a plain append.
InsertAppend(rs, id, embedding_bytes, metadata) ==
    Append(rs, [id |-> id, embedding |-> embedding_bytes, metadata |-> metadata])

\* INSERT OR REPLACE INTO vectors (id, embedding, metadata): a row with the
\* same primary key is deleted, then the new row gets the next rowid.
InsertOrReplace(rs, id, embedding_bytes, metadata) ==
    Append(DeleteWhere(rs, id),
           [id |-> id, embedding |-> embedding_bytes, metadata |-> metadata])

\* Embeddings that another writer of the file may have left: a MessagePack
\* nil, and an encoding cut short after the first of two floats.
ForeignBlobs == { <<192>>, <<145, 146, 202, 63, 128, 0, 0>> }

\* Contents of the file at `path` when VectorDB::new opens it.
InitialFiles ==
    { << >> } \cup
    { << [id |-> "a", embedding |-> e, metadata |-> "{}"] >> : e \in ForeignBlobs }

----------------------------------------------------------------------------
(* VectorDB::search, as a function of the table *)

\* Variant of ScanRows that stops at the first row that does not decode.
RECURSIVE ScanRowsUntilError(_, _, _)
ScanRowsUntilError(rs, query, i) ==
    IF i > Len(rs) THEN << >>
    ELSE LET decoded == from_slice(rs[i].embedding)
         IN  IF decoded.ok
             THEN << [id |-> rs[i].id,
                      score |-> cosine_similarity(query, decoded.vector),
                      metadata |-> rs[i].metadata] >> \o ScanRowsUntilError(rs, query, i + 1)
             ELSE << >>

\* query_map(..).filter_map(ok).filter_map(decode and score): rows whose
\* embedding does not decode are dropped by `.ok()?`.
RECURSIVE ScanRows(_, _, _)
ScanRows(rs, query, i) ==
    IF i > Len(rs) THEN << >>
    ELSE LET decoded == from_slice(rs[i].embedding)
         IN  IF decoded.ok
             THEN << [id |-> rs[i].id,
                      score |-> cosine_similarity(query, decoded.vector),
                      metadata |-> rs[i].metadata] >> \o ScanRows(rs, query, i + 1)
             ELSE ScanRows(rs, query, i + 1)

\* The comparator |a, b| b.score.partial_cmp(&a.score).unwrap_or(Equal).
compare(a, b) ==
    LET c == partial_cmp(b.score, a.score)
    IN  IF c = "None" THEN "Equal" ELSE c

\* slice::sort_by on a short slice (at most 20 elements) is an insertion
\* sort: each element moves left past the elements it is Less than.
RECURSIVE InsertPos(_, _, _)
InsertPos(sorted, x, j) ==
    IF j = 0 \/ compare(x, sorted[j]) # "Less" THEN j
    ELSE InsertPos(sorted, x, j - 1)

InsertTail(sorted, x) ==
    LET p == InsertPos(sorted, x, Len(sorted))
    IN  SubSeq(sorted, 1, p) \o <<x>> \o SubSeq(sorted, p + 1, Len(sorted))

RECURSIVE sort_by(_, _)
sort_by(results, n) ==
    IF n = 0 THEN << >>
    ELSE InsertTail(sort_by(results, n - 1), results[n])

truncate(results, k) == SubSeq(results, 1, Min(k, Len(results)))

SearchResults(rs, query, k) ==
    LET results == ScanRows(rs, query, 1)
    IN  truncate(sort_by(results, Len(results)), k)

\* Variant of GetResult that reports an undecodable record as absent.
GetResultSkipCorrupt(rs, id) ==
    IF ~HasId(rs, id) THEN [tag |-> "Ok", some |-> FALSE]
    ELSE LET row == RowOf(rs, id)
             decoded == from_slice(row.embedding)
         IN  IF decoded.ok
             THEN [tag |-> "Ok", some |-> TRUE,
                   vector |-> decoded.vector, metadata |-> row.metadata]
             ELSE [tag |-> "Ok", some |-> FALSE]

\* VectorDB::get, as a function of the table
GetResult(rs, id) ==
    IF ~HasId(rs, id) THEN [tag |-> "Ok", some |-> FALSE]
    ELSE LET row == RowOf(rs, id)
             decoded == from_slice(row.embedding)
         IN  IF decoded.ok
             THEN [tag |-> "Ok", some |-> TRUE,
                   vector |-> decoded.vector, metadata |-> row.metadata]
             ELSE [tag |-> "Err", kind |-> "Serialization"]

----------------------------------------------------------------------------
(* State                                                                   *)
(*   rows        the table, in rowid order                                 *)
(*   dimension   the field VectorDB.dimension : Option<usize>              *)
(*   written     per id, the (vector, metadata) of the last successful     *)
(*               insert through this instance not yet deleted or cleared   *)
(*   established the vector length of the first successful insert through  *)
(*               this instance, None before it                             *)
(*   last        the last call: its name, arguments and returned value     *)
(*   threads     per caller thread, the call it is in and how far it got    *)
(*   lock        the RwLock around the connection: its writer and readers  *)

Threads == {"t1", "t2"}

Idle == [pc |-> "idle"]
Unlocked == [writer |-> None, readers |-> {}]


Init ==
    /\ rows \in InitialFiles
    /\ dimension = None
    /\ written = [i \in Ids |-> None]
    /\ established = None
    /\ last = [op |-> "new", res |-> Ok]
    /\ threads = [t \in Threads |-> Idle]
    /\ lock = Unlocked

Insert(id, vector, metadata) ==
    IF dimension.some /\ Len(vector) # dimension.val
    THEN /\ last' = [op |-> "insert", id |-> id, vector |-> vector,
                     metadata |-> metadata, replaced |-> FALSE,
                     res |-> [tag |-> "Err", kind |-> "InvalidDimension",
                              expected |-> dimension.val, got |-> Len(vector)]]
         /\ UNCHANGED <<rows, dimension, written, established, conc>>
    ELSE LET embedding_bytes == to_vec(vector)
         IN  /\ rows' = InsertOrReplace(rows, id, embedding_bytes, metadata)
             /\ written' = [written EXCEPT ![id] =
                               Some([vector |-> vector, metadata |-> metadata])]
             /\ established' = IF established.some THEN established
                                ELSE Some(Len(vector))
             /\ last' = [op |-> "insert", id |-> id, vector |-> vector,
                         metadata |-> metadata, replaced |-> HasId(rows, id),
                         res |-> Ok]
             /\ UNCHANGED <<dimension, conc>>

Search(query, k) ==
    /\ last' = [op |-> "search", query |-> query, k |-> k,
                res |-> [tag |-> "Ok", results |-> SearchResults(rows, query, k)]]
    /\ UNCHANGED <<rows, dimension, written, established, conc>>

Delete(id) ==
    /\ rows' = DeleteWhere(rows, id)
    /\ written' = [written EXCEPT ![id] = None]
    /\ last' = [op |-> "delete", id |-> id,
                changes |-> Len(rows) - Len(DeleteWhere(rows, id)), res |-> Ok]
    /\ UNCHANGED <<dimension, established, conc>>

Count ==
    /\ last' = [op |-> "count", res |-> [tag |-> "Ok", count |-> Len(rows)]]
    /\ UNCHANGED <<rows, dimension, written, established, conc>>

Clear ==
    /\ rows' = DeleteAll(rows)
    /\ written' = [i \in Ids |-> None]
    /\ last' = [op |-> "clear", changes |-> Len(rows), res |-> Ok]
    /\ UNCHANGED <<dimension, established, conc>>

\* Variant of Get that removes the record it has read.
GetAndRemove(id) ==
    /\ last' = [op |-> "get", id |-> id, res |-> GetResult(rows, id)]
    /\ rows' = DeleteWhere(rows, id)
    /\ UNCHANGED <<dimension, written, established, conc>>

Get(id) ==
    /\ last' = [op |-> "get", id |-> id, res |-> GetResult(rows, id)]
    /\ UNCHANGED <<rows, dimension, written, established, conc>>

Next ==
    \/ \E id \in Ids, d \in Docs : Insert(id, d.vector, d.metadata)
    \/ \E query \in Queries, k \in 0..MaxK : Search(query, k)
    \/ \E id \in Ids : Delete(id)
    \/ Count
    \/ Clear
    \/ \E id \in Ids : Get(id)

Spec == Init /\ [][Next]_vars

\* The same operations on an instance built on an empty file.
InitFresh ==
    /\ rows = << >>
    /\ dimension = None
    /\ written = [i \in Ids |-> None]
    /\ established = None
    /\ last = [op |-> "new", res |-> Ok]
    /\ threads = [t \in Threads |-> Idle]
    /\ lock = Unlocked

SpecFresh == InitFresh /\ [][Next]_vars

\* The same operations on an empty file, by a caller whose documents and
\* queries all have the same length.
UniformDocs == {d \in Docs : Len(d.vector) = 2}
UniformQueries == {q \in Queries : Len(q) = 2}

NextUniform ==
    \/ \E id \in Ids, d \in UniformDocs : Insert(id, d.vector, d.metadata)
    \/ \E query \in UniformQueries, k \in 0..MaxK : Search(query, k)
    \/ \E id \in Ids : Delete(id)
    \/ Count
    \/ Clear
    \/ \E id \in Ids : Get(id)

SpecUniform == InitFresh /\ [][NextUniform]_vars

----------------------------------------------------------------------------
(* VectorDB::new on the path of a file that an earlier instance wrote; the *)
(* earlier instance is dropped, `written` and `established` start again.   *)

\* Variant of OpenSchema that drops and recreates the table.
RecreateSchema(rs) == << >>

\* CREATE TABLE IF NOT EXISTS vectors (..): an existing table is kept.
OpenSchema(rs) == rs

New ==
    /\ rows' = OpenSchema(rows)
    /\ dimension' = None
    /\ written' = [i \in Ids |-> None]
    /\ established' = None
    /\ last' = [op |-> "new", res |-> Ok]
    /\ UNCHANGED conc

ReopenIds == {"a", "b"}

NextReopen ==
    \/ \E id \in ReopenIds, d \in Docs : Insert(id, d.vector, d.metadata)
    \/ \E id \in ReopenIds : Get(id)
    \/ Count
    \/ New

SpecReopen == Init /\ [][NextReopen]_vars

----------------------------------------------------------------------------
(* Two threads sharing one VectorDB, each in one call.  A call is split at *)
(* the points where the other thread can run: insert first compares the    *)
(* vector with self.dimension ("check"), every call then waits for the     *)
(* RwLock ("lock"), holds it while its statement runs ("inside"), and      *)
(* returns, which drops the guard ("done").  parking_lot's RwLock grants   *)
(* write() when there is no writer and no reader, read() when there is no  *)
(* writer.  The statement may be refused by the engine (exec_ok = FALSE,   *)
(* for example SQLITE_BUSY); SQLite applies a statement wholly or not.     *)

ConcIds == {"a", "b"}
ConcDocs == {d \in TestDocs : d.metadata = "{}" /\ d.vector \in {<<F32_1>>, <<F32_1, F32_0>>}}

ConcCalls ==
    {[op |-> "insert", id |-> id, vector |-> d.vector, metadata |-> d.metadata] :
        id \in ConcIds, d \in ConcDocs}
    \cup {[op |-> "search", query |-> <<F32_1>>, k |-> 1]}
    \cup {[op |-> "delete", id |-> id] : id \in ConcIds}
    \cup {[op |-> "get", id |-> id] : id \in ConcIds}
    \cup {[op |-> "count"], [op |-> "clear"]}

\* Files the shared instance is opened on: those of InitialFiles, and one
\* holding a record an earlier instance wrote.
ConcFiles ==
    InitialFiles \cup
    { << [id |-> "b", embedding |-> to_vec(<<F32_1, F32_0>>), metadata |-> "{}"] >> }

\* A call that has been made: insert starts at its dimension check, the
\* other operations at the lock.
Started(call) ==
    [pc |-> IF call.op = "insert" THEN "check" ELSE "lock", call |-> call]

InitConc ==
    /\ rows \in ConcFiles
    /\ dimension = None
    /\ written = [i \in Ids |-> None]
    /\ established = None
    /\ last = [op |-> "new", res |-> Ok]
    /\ threads \in [Threads -> {Started(c) : c \in ConcCalls}]
    /\ lock = Unlocked

\* Variant of LockMode in which every operation takes the read lock.
LockModeAlwaysRead(op) == "read"

\* self.conn.write() in insert, delete and clear; self.conn.read() in
\* search, count and get.
LockMode(op) == IF op \in {"insert", "delete", "clear"} THEN "write" ELSE "read"

\* Variant of ExecuteInsert that replaces in two statements, a DELETE and an
\* INSERT, of which the engine refuses the second.
ExecuteInsertTwoStatements(rs, id, embedding_bytes, metadata, exec_ok) ==
    IF exec_ok THEN InsertOrReplace(rs, id, embedding_bytes, metadata)
    ELSE DeleteWhere(rs, id)

\* conn.execute("INSERT OR REPLACE ..")?: one statement, applied or refused.
ExecuteInsert(rs, id, embedding_bytes, metadata, exec_ok) ==
    IF exec_ok THEN InsertOrReplace(rs, id, embedding_bytes, metadata) ELSE rs

SqliteError == [tag |-> "Err", kind |-> "Sqlite"]

Returned(t, res) == [pc |-> "done", call |-> threads[t].call, res |-> res]

\* insert, lib.rs lines 203-213: the dimension check and the encoding, made
\* before the lock is asked for.
CheckDimension(t) ==
    /\ threads[t].pc = "check"
    /\ LET call == threads[t].call
       IN  IF dimension.some /\ Len(call.vector) # dimension.val
           THEN LET res == [tag |-> "Err", kind |-> "InvalidDimension",
                            expected |-> dimension.val, got |-> Len(call.vector)]
                IN  /\ threads' = [threads EXCEPT ![t] = Returned(t, res)]
                    /\ last' = [call EXCEPT !.res = res]
           ELSE /\ threads' = [threads EXCEPT ![t].pc = "lock"]
                /\ UNCHANGED last
    /\ UNCHANGED <<rows, dimension, written, established, lock>>

\* self.conn.write() or self.conn.read() returns the guard.
Acquire(t) ==
    /\ threads[t].pc = "lock"
    /\ IF LockMode(threads[t].call.op) = "write"
       THEN /\ ~lock.writer.some
            /\ lock.readers = {}
            /\ lock' = [lock EXCEPT !.writer = Some(t)]
       ELSE /\ ~lock.writer.some
            /\ lock' = [lock EXCEPT !.readers = @ \cup {t}]
    /\ threads' = [threads EXCEPT ![t].pc = "inside"]
    /\ UNCHANGED <<rows, dimension, written, established, last>>

\* Variant of Release in which a write guard outlives the call.
ReleaseReadGuardOnly(t) ==
    [writer |-> lock.writer, readers |-> lock.readers \ {t}]

\* The guard is dropped when the function returns.
Release(t) ==
    [writer |-> IF lock.writer = Some(t) THEN None ELSE lock.writer,
     readers |-> lock.readers \ {t}]

\* The statement of the call runs under the lock and the call returns.
Execute(t, exec_ok) ==
    /\ threads[t].pc = "inside"
    /\ LET call == threads[t].call
           res == IF ~exec_ok THEN SqliteError
                  ELSE CASE call.op = "search" ->
                              [tag |-> "Ok",
                               results |-> SearchResults(rows, call.query, call.k)]
                         [] call.op = "count" -> [tag |-> "Ok", count |-> Len(rows)]
                         [] call.op = "get" -> GetResult(rows, call.id)
                         [] OTHER -> Ok
       IN  /\ rows' = CASE call.op = "insert" ->
                            ExecuteInsert(rows, call.id, to_vec(call.vector),
                                          call.metadata, exec_ok)
                        [] call.op = "delete" /\ exec_ok -> DeleteWhere(rows, call.id)
                        [] call.op = "clear" /\ exec_ok -> DeleteAll(rows)
                        [] OTHER -> rows
           /\ written' = CASE call.op = "insert" /\ exec_ok ->
                               [written EXCEPT ![call.id] =
                                   Some([vector |-> call.vector,
                                         metadata |-> call.metadata])]
                           [] call.op = "delete" /\ exec_ok ->
                               [written EXCEPT ![call.id] = None]
                           [] call.op = "clear" /\ exec_ok -> [i \in Ids |-> None]
                           [] OTHER -> written
           /\ established' = IF call.op = "insert" /\ exec_ok /\ ~established.some
                             THEN Some(Len(call.vector)) ELSE established
           /\ threads' = [threads EXCEPT ![t] = Returned(t, res)]
           /\ last' = [op |-> call.op, call |-> call, res |-> res]
    /\ lock' = Release(t)
    /\ UNCHANGED dimension

NextConc ==
    \/ \E t \in Threads : CheckDimension(t)
    \/ \E t \in Threads : Acquire(t)
    \/ \E t \in Threads, exec_ok \in BOOLEAN : Execute(t, exec_ok)

SpecConc == InitConc /\ [][NextConc]_vars

----------------------------------------------------------------------------
(* Two threads calling the shared VectorDB again and again.  A thread that *)
(* is idle or has returned may start any call; the steps of a call are     *)
(* those of SpecConc.  The scheduler runs every thread that can take a     *)
(* step (weak fairness of CheckDimension and Execute), and the lock is     *)
(* fair: a thread that can be granted the lock again and again is          *)
(* eventually granted it (strong fairness of Acquire).                     *)

LiveCalls ==
    { [op |-> "insert", id |-> "a", vector |-> <<F32_1>>, metadata |-> "{}"],
      [op |-> "delete", id |-> "a"],
      [op |-> "clear"],
      [op |-> "search", query |-> <<F32_1>>, k |-> 1],
      [op |-> "get", id |-> "a"],
      [op |-> "count"] }

InitLive ==
    /\ rows = << >>
    /\ dimension = None
    /\ written = [i \in Ids |-> None]
    /\ established = None
    /\ last = [op |-> "new", res |-> Ok]
    /\ threads = [t \in Threads |-> Idle]
    /\ lock = Unlocked

\* A thread that is in no call makes one.
Call(t, call) ==
    /\ threads[t].pc \in {"idle", "done"}
    /\ threads' = [threads EXCEPT ![t] = Started(call)]
    /\ UNCHANGED <<rows, dimension, written, established, last, lock>>

NextLive ==
    \/ \E t \in Threads, call \in LiveCalls : Call(t, call)
    \/ \E t \in Threads : CheckDimension(t)
    \/ \E t \in Threads : Acquire(t)
    \/ \E t \in Threads, exec_ok \in BOOLEAN : Execute(t, exec_ok)

Fairness ==
    \A t \in Threads :
       /\ WF_vars(CheckDimension(t))
       /\ SF_vars(Acquire(t))
       /\ WF_vars(\E exec_ok \in BOOLEAN : Execute(t, exec_ok))

SpecLive == InitLive /\ [][NextLive]_vars /\ Fairness

\* The thread holds a guard of the lock.
Holds(t) == lock.writer = Some(t) \/ t \in lock.readers

\* The thread is in a call that has not returned.
InCall(t) == threads[t].pc \in {"check", "lock", "inside"}

----------------------------------------------------------------------------
(* Vector::cosine_similarity called directly, under both builds of the     *)
(* crate: with the feature "simd" and without it.                          *)

MaxKernelLen == 17

IntToF32(n) == CASE n = 0 -> F32_0 [] n = 1 -> F32_1 [] n = 2 -> F32_2

\* Operands of every length up to MaxKernelLen: all 0.0, all 1.0, the
\* repeating 1.0, 2.0, 0.0, and 0.0 or 1.0 with the last component 1.0 or NaN.
KernelVectors ==
    UNION { { [i \in 1..n |-> F32_0],
              [i \in 1..n |-> F32_1],
              [i \in 1..n |-> IntToF32(i % 3)],
              [i \in 1..n |-> IF i = n THEN F32_1 ELSE F32_0],
              [i \in 1..n |-> IF i = n THEN F32_NaN ELSE F32_1] } : n \in 0..MaxKernelLen }

\* Two vectors built with Vector::from_slice, not yet compared.
InitKernel ==
    /\ rows = << >>
    /\ dimension = None
    /\ written = [i \in Ids |-> None]
    /\ established = None
    /\ last \in {[op |-> "from_slice", a |-> a, b |-> b] :
                    a \in KernelVectors, b \in KernelVectors}
    /\ threads = [t \in Threads |-> Idle]
    /\ lock = Unlocked

\* a.cosine_similarity(&b) on the two vectors built.
CosineSimilarity ==
    /\ last.op = "from_slice"
    /\ LET a == last.a
           b == last.b
       IN  last' = [op |-> "cosine_similarity", a |-> a, b |-> b,
                    simd |-> [sums |-> simd_sums(a, b),
                              score |-> simd_cosine_similarity(a, b)],
                    scalar |-> [sums |-> scalar_sums(a, b),
                                score |-> scalar_cosine_similarity(a, b)]]
    /\ UNCHANGED <<rows, dimension, written, established, conc>>

NextKernel == CosineSimilarity

SpecKernel == InitKernel /\ [][NextKernel]_vars

----------------------------------------------------------------------------
(* Properties *)

UniqueIds(rs) == Cardinality(RowIds(rs)) = Len(rs)
Decodable(r) == from_slice(r.embedding).ok
DecodableRows(rs) == SelectSeq(rs, Decodable)

\* Every row under an id other than `id` is the same in rs1 and rs2.
OthersUntouched(rs1, rs2, id) ==
    \A j \in Ids \ {id} :
        /\ HasId(rs2, j) = HasId(rs1, j)
        /\ HasId(rs1, j) => RowOf(rs2, j) = RowOf(rs1, j)

\* C1: once an insert of a vector of length n has succeeded on the instance,
\* every later insert of a vector of another length fails with
\* InvalidDimension { expected: n, got: the offered length }.
C1_LaterInsertOfOtherLengthFails ==
    [][ last'.op = "insert" =>
          \A i \in Ids :
             (written[i].some /\ Len(written[i].val.vector) # Len(last'.vector))
             => /\ last'.res.tag = "Err"
                /\ last'.res.kind = "InvalidDimension"
                /\ last'.res.expected = Len(written[i].val.vector)
                /\ last'.res.got = Len(last'.vector) ]_vars

\* C2: the dimension is Unset at construction, becomes Fixed(n) exactly when
\* the first insert succeeds (n the length of its vector), and never changes
\* after that.
C2_DimensionStateMachine ==
    /\ dimension = None
    /\ [][ IF dimension.some
           THEN dimension' = dimension
           ELSE /\ dimension'.some <=> (last'.op = "insert" /\ last'.res.tag = "Ok")
                /\ dimension'.some => dimension'.val = Len(last'.vector) ]_vars

\* C3: in a store that was empty at construction, all stored records have
\* the same vector length.
C3_StoredLengthsAgree ==
    \A i, j \in 1..Len(rows) :
        /\ Decodable(rows[i])
        /\ Decodable(rows[j])
        /\ Len(from_slice(rows[i].embedding).vector)
             = Len(from_slice(rows[j].embedding).vector)

\* C4: while the record that insert(id, v, m) wrote has not been overwritten,
\* deleted or cleared, get(id) returns exactly (v, m).
C4_InsertThenGetRoundTrip ==
    (last.op = "get" /\ written[last.id].some)
    => last.res = [tag |-> "Ok", some |-> TRUE,
                   vector |-> written[last.id].val.vector,
                   metadata |-> written[last.id].val.metadata]

C4_Witness ==
    /\ last.op = "get"
    /\ written[last.id].some
    /\ written[last.id].val.vector = <<F32_1, F32_0>>
    /\ written[last.id].val.metadata = "{\"title\": \"Test\"}"
    /\ last.res.tag = "Ok"
    /\ Len(rows) >= 2

\* C5: ids are unique in the store at all times; a successful insert under
\* an existing id replaces that record and keeps the count, under a new id
\* it raises the count by one; records under other ids are untouched.
C5_InsertIsUpsert ==
    /\ UniqueIds(rows)
    /\ [][ /\ UniqueIds(rows')
           /\ (last'.op = "insert" /\ last'.res.tag = "Ok") =>
                /\ Len(rows') = IF HasId(rows, last'.id) THEN Len(rows) ELSE Len(rows) + 1
                /\ HasId(rows', last'.id)
                /\ from_slice(RowOf(rows', last'.id).embedding)
                     = [ok |-> TRUE, vector |-> last'.vector]
                /\ RowOf(rows', last'.id).metadata = last'.metadata
                /\ OthersUntouched(rows, rows', last'.id) ]_vars

C5_Witness ==
    /\ last.op = "insert"
    /\ last.res.tag = "Ok"
    /\ last.replaced
    /\ Len(rows) >= 2

\* C6: delete(id) of a stored id removes exactly that record; delete(id) of
\* an absent id succeeds and changes nothing.
C6_DeleteRemovesExactlyOne ==
    [][ last'.op = "delete" =>
          /\ last'.res.tag = "Ok"
          /\ IF HasId(rows, last'.id)
             THEN /\ Len(rows') = Len(rows) - 1
                  /\ GetResult(rows', last'.id) = [tag |-> "Ok", some |-> FALSE]
                  /\ OthersUntouched(rows, rows', last'.id)
             ELSE rows' = rows ]_vars

C6_Witness ==
    /\ last.op = "delete"
    /\ last.changes = 1
    /\ Len(rows) >= 1

\* C7: search(query, k) returns at most k results, no result scoring below a
\* later one, with distinct ids of stored records; when every row decodes
\* the number of results is min(k, count).
C7_SearchBoundedSortedDistinct ==
    last.op = "search" =>
        LET res == last.res.results
        IN  /\ last.res.tag = "Ok"
            /\ Len(res) <= last.k
            /\ \A i, j \in 1..Len(res) :
                  i < j => ~ScoreLt(res[i].score, res[j].score)
            /\ \A i, j \in 1..Len(res) : i # j => res[i].id # res[j].id
            /\ \A i \in 1..Len(res) : HasId(rows, res[i].id)
            /\ (\A i \in 1..Len(rows) : Decodable(rows[i]))
                  => Len(res) = Min(last.k, Len(rows))

\* C8: search(query, k) returns the k best-scoring records: no scored record
\* left out of the result scores strictly above a record in it, and for
\* k >= 1 no scored record scores strictly above result 0.
C8_SearchReturnsTopK ==
    last.op = "search" =>
        LET res == last.res.results
            all == ScanRows(rows, last.query, 1)
            resIds == {res[i].id : i \in 1..Len(res)}
        IN  /\ \A x \in 1..Len(all), i \in 1..Len(res) :
                  all[x].id \notin resIds => ~ScoreLt(res[i].score, all[x].score)
            /\ (last.k >= 1 /\ Len(all) >= 1)
                  => /\ Len(res) >= 1
                     /\ \A x \in 1..Len(all) : ~ScoreLt(res[1].score, all[x].score)

\* C9: search succeeds whatever the rows hold; its results are exactly what
\* the decodable rows alone give: each result is a decodable row with its
\* score and metadata, min(k, number of decodable rows) of them.
C9_SearchSkipsUndecodableRows ==
    last.op = "search" =>
        LET res == last.res.results
            good == DecodableRows(rows)
        IN  /\ last.res.tag = "Ok"
            /\ Len(res) = Min(last.k, Len(good))
            /\ \A i, j \in 1..Len(res) : i # j => res[i].id # res[j].id
            /\ \A i \in 1..Len(res) :
                  /\ HasId(good, res[i].id)
                  /\ res[i].metadata = RowOf(good, res[i].id).metadata
                  /\ res[i].score = cosine_similarity(last.query,
                                       from_slice(RowOf(good, res[i].id).embedding).vector)
            /\ res = SearchResults(good, last.query, last.k)

C9_Witness ==
    /\ last.op = "search"
    /\ \E i \in 1..Len(rows) : ~Decodable(rows[i])
    /\ Len(last.res.results) = 2
    /\ Len(rows) = 3

\* C10: get(id) returns Ok(None) when no record has the id, the record's
\* vector and metadata when its bytes are the encoding of a vector, and a
\* Serialization error when they are not.
C10_GetThreeOutcomes ==
    last.op = "get" =>
        IF ~HasId(rows, last.id)
        THEN last.res = [tag |-> "Ok", some |-> FALSE]
        ELSE LET row == RowOf(rows, last.id)
             IN  IF \E d \in TestDocs : to_vec(d.vector) = row.embedding
                 THEN /\ last.res.tag = "Ok"
                      /\ last.res.some
                      /\ to_vec(last.res.vector) = row.embedding
                      /\ last.res.metadata = row.metadata
                 ELSE last.res = [tag |-> "Err", kind |-> "Serialization"]

C10_Witness ==
    /\ last.op = "get"
    /\ HasId(rows, last.id)
    /\ last.res.tag = "Err"
    /\ last.res.kind = "Serialization"

\* C11: immediately after clear() the store holds no record: count is 0,
\* get reports not found for every id, and search returns the empty sequence
\* for every query and k.
C11_ClearRemovesEverything ==
    last.op = "clear" =>
        /\ last.res.tag = "Ok"
        /\ Len(rows) = 0
        /\ \A id \in Ids : GetResult(rows, id) = [tag |-> "Ok", some |-> FALSE]
        /\ \A query \in Queries, k \in 0..MaxK : SearchResults(rows, query, k) = << >>

C11_Witness ==
    /\ last.op = "clear"
    /\ last.changes = 3
    /\ Len(rows) = 0

\* C12: after an insert of length n has succeeded and clear() has been
\* called, an insert of a vector of another length fails with
\* InvalidDimension { expected: n }, although the store holds no records.
C12_ClearKeepsDimensionCheck ==
    [][ ( /\ last.op = "clear"
          /\ established.some
          /\ last'.op = "insert"
          /\ Len(last'.vector) # established.val )
        => /\ last'.res.tag = "Err"
           /\ last'.res.kind = "InvalidDimension"
           /\ last'.res.expected = established.val
           /\ last'.res.got = Len(last'.vector) ]_vars

\* C19: search with a query of any length succeeds and gives every decodable
\* row the score of the first min(len(query), len(row vector)) components of
\* both; no row is rejected for its length.
C19_SearchScoresCommonPrefix ==
    last.op = "search" =>
        LET res == last.res.results
            good == DecodableRows(rows)
        IN  /\ last.res.tag = "Ok"
            /\ Len(res) = Min(last.k, Len(good))
            /\ \A i \in 1..Len(res) :
                  LET v == from_slice(RowOf(good, res[i].id).embedding).vector
                      n == Min(Len(last.query), Len(v))
                  IN  res[i].score =
                         cosine_similarity(SubSeq(last.query, 1, n), SubSeq(v, 1, n))

C19_Witness ==
    /\ last.op = "search"
    /\ Len(last.query) = 1
    /\ Len(last.res.results) >= 1
    /\ \E i \in 1..Len(last.res.results) :
          /\ Len(from_slice(RowOf(rows, last.res.results[i].id).embedding).vector) = 2
          /\ last.res.results[i].score = [nan |-> FALSE, dot |-> 1, nn |-> 1]

\* C20: search, get and count change neither the records nor the store
\* dimension, whatever they return, so a read after a read sees the same
\* count and the same record under every id.
C20_ReadsAreObservers ==
    [][ last'.op \in {"search", "get", "count"} =>
          /\ rows' = rows
          /\ dimension' = dimension
          /\ Len(rows') = Len(rows)
          /\ \A id \in Ids : GetResult(rows', id) = GetResult(rows, id) ]_vars

C20_Witness ==
    /\ last.op = "get"
    /\ last.res.tag = "Ok"
    /\ last.res.some
    /\ Len(rows) = 3

\* C14: cosine_similarity returns exactly 0.0, in both implementations,
\* whenever one operand is 0.0 in each of the first min(len(a), len(b))
\* components (its squared norm over them is zero), whatever the other
\* operand holds; this includes the empty vector.
ZeroPrefix(v, n) == \A i \in 1..n : v[i] = F32_0

C14_ZeroNormGivesZero ==
    last.op = "cosine_similarity" =>
        LET n == Min(Len(last.a), Len(last.b))
        IN  (ZeroPrefix(last.a, n) \/ ZeroPrefix(last.b, n))
            => /\ last.simd.score = ScoreZero
               /\ last.scalar.score = ScoreZero

C14_Witness ==
    /\ last.op = "cosine_similarity"
    /\ Len(last.a) >= 9
    /\ Len(last.b) >= 9
    /\ ZeroPrefix(last.a, Min(Len(last.a), Len(last.b)))
    /\ \E i \in 1..Min(Len(last.a), Len(last.b)) : IsNaN(last.b[i])
    /\ last.simd.score = ScoreZero

\* C15: for operands of equal length the lane-parallel and the scalar
\* implementation compute the same dot product and squared norms, and the
\* same similarity.
C15_SimdAgreesWithScalar ==
    (last.op = "cosine_similarity" /\ Len(last.a) = Len(last.b))
    => /\ last.simd.sums = last.scalar.sums
       /\ last.simd.score = last.scalar.score

C15_Witness ==
    /\ last.op = "cosine_similarity"
    /\ Len(last.a) = 17
    /\ Len(last.b) = 17
    /\ ~last.simd.score.nan
    /\ last.simd.score.dot > 0
    /\ last.simd.score = last.scalar.score

\* C18: VectorDB::new on a location that holds records succeeds, leaves the
\* records as they are and starts with the dimension Unset; the first insert
\* through the new instance is accepted whatever the length of its vector.
C18_NewKeepsRecordsAndResetsDimension ==
    [][ /\ last'.op = "new" =>
              /\ last'.res = Ok
              /\ rows' = rows
              /\ dimension' = None
        /\ (last.op = "new" /\ last'.op = "insert") => last'.res = Ok ]_vars

C18_Witness ==
    /\ last.op = "insert"
    /\ last.res = Ok
    /\ established = Some(Len(last.vector))
    /\ \E i \in 1..Len(rows) :
          /\ rows[i].id # last.id
          /\ ~written[rows[i].id].some
          /\ Decodable(rows[i])
          /\ Len(from_slice(rows[i].embedding).vector) # Len(last.vector)

\* C13: while a write operation (insert, delete, clear) holds the lock no
\* other operation of the instance is inside its critical section; read
\* operations (search, get, count) may be inside together.
C13_WritersExcludeEveryone ==
    /\ \A t \in Threads :
          (threads[t].pc = "inside" /\ threads[t].call.op \in {"insert", "delete", "clear"})
             => \A u \in Threads \ {t} : threads[u].pc # "inside"
    /\ \A t \in Threads :
          threads[t].pc = "inside" <=> (lock.writer = Some(t) \/ t \in lock.readers)

\* Both threads are inside read operations at the same time.
C13_Witness ==
    /\ \A t \in Threads :
          threads[t].pc = "inside" /\ threads[t].call.op \in {"search", "get", "count"}
    /\ lock.readers = Threads

\* C16: two concurrent inserts of different lengths on an instance with no
\* dimension established do not both return Ok.
C16_ConcurrentInsertsOneFails ==
    \A t, u \in Threads :
       (/\ t # u
        /\ threads[t].call.op = "insert"
        /\ threads[u].call.op = "insert"
        /\ Len(threads[t].call.vector) # Len(threads[u].call.vector)
        /\ threads[t].pc = "done"
        /\ threads[u].pc = "done")
       => ~(threads[t].res = Ok /\ threads[u].res = Ok)

\* C17: an insert that returns an error leaves the records and the dimension
\* as they were, and a dimension-mismatch error is returned from the check,
\* without the lock having been asked for.
C17_FailedInsertChangesNothing ==
    [][ \A t \in Threads :
          (/\ threads[t].pc # "done"
           /\ threads'[t].pc = "done"
           /\ threads'[t].call.op = "insert"
           /\ threads'[t].res.tag = "Err")
          => /\ rows' = rows
             /\ dimension' = dimension
             /\ written' = written
             /\ threads'[t].res.kind = "InvalidDimension"
                   => (threads[t].pc = "check" /\ lock' = lock) ]_vars

\* An insert under an id that has a record returned an error, and the record
\* is still there.
C17_Witness ==
    \E t \in Threads :
       /\ threads[t].pc = "done"
       /\ threads[t].call.op = "insert"
       /\ threads[t].res.tag = "Err"
       /\ HasId(rows, threads[t].call.id)
       /\ last = [op |-> "insert", call |-> threads[t].call, res |-> threads[t].res]

\* C21: a thread holds the lock exactly while it is inside the statement of
\* its call, so not before and not after any return, error returns included;
\* it gets the lock only at the lock point of a call and while not holding
\* it, and from inside it can only return; whenever some call has not
\* returned, some call can take a step; and with a fair scheduler and a fair
\* lock every call that was started returns.
C21_LockOnceAndEveryCallReturns ==
    /\ [](\A t \in Threads : Holds(t) <=> threads[t].pc = "inside")
    /\ [][ \A t \in Threads :
             /\ (~Holds(t) /\ Holds(t)')
                   => (threads[t].pc = "lock" /\ threads'[t].pc = "inside")
             /\ threads[t].pc = "inside" => threads'[t].pc \in {"inside", "done"} ]_vars
    /\ []((\E t \in Threads : InCall(t)) => ENABLED <<NextConc>>_vars)
    /\ \A t \in Threads : [](InCall(t) => <>(threads[t].pc = "done"))

\* A call returned a storage error, and after that return the other thread
\* was granted the write lock.
C21_Witness ==
    \E t, u \in Threads :
       /\ t # u
       /\ threads[t].pc = "done"
       /\ threads[t].res = SqliteError
       /\ last.res = SqliteError
       /\ threads[u].pc = "inside"
       /\ lock.writer = Some(u)

====
